---- MODULE Spec2Model ----
(***************************************************************************)
(* Blind Aria Trainer (cariocaphil/blind-aria): take selection, the party  *)
(* session store (game_sessions, session_members, session_notes) as the    *)
(* Streamlit script drives it, and the solo selection.                     *)
(*                                                                         *)
(* Eleven specifications share the module:                                 *)
(*   SpecPick  pick_versions as a function of (videos, count, draws)       *)
(*   Spec      party mode: browser views running the script of app_old.py  *)
(*             / ui/session.py against the shared store, one store request *)
(*             per step                                                    *)
(*   SpecSeq   the same steps with one script run at a time                *)
(*   SpecSolo  solo mode: one view whose script run is two steps, up to    *)
(*             random.seed and from there on, next to draws other sessions *)
(*             of the process take from the generator of `random`          *)
(*   SpecAll   party mode or solo mode, chosen at Init                     *)
(*   SpecFail  Spec with store requests that raise                         *)
(*   SpecNotes an established session: join, player loop with load_note    *)
(*             and upsert_note, reshuffle, requests that raise, a session  *)
(*             whose work the catalog lacks                                *)
(*   SpecStore SpecFail or SpecNotes, chosen at Init                       *)
(*   SpecPlay  an established session with the player: Listen, Stop, and   *)
(*             the owner's change aria and reshuffle                       *)
(*   SpecForged a link whose session id the store does not hold            *)
(*   SpecFrame notes, joins and owner mutations together, also for a work  *)
(*             that lost a take in the catalog                             *)
(***************************************************************************)
EXTENDS Integers, Sequences, FiniteSets, TLC

None == "None"

(***************************************************************************)
(* Sequences helpers                                                       *)
(***************************************************************************)
Range(s) == {s[i] : i \in 1..Len(s)}

RECURSIVE SeqsUpTo(_, _)
SeqsUpTo(S, n) ==
  IF n = 0 THEN {<<>>}
  ELSE LET shorter == SeqsUpTo(S, n - 1)
       IN  shorter \cup {Append(s, x) : s \in {t \in shorter : Len(t) = n - 1}, x \in S}

Swap(s, i, j) == [s EXCEPT ![i] = s[j], ![j] = s[i]]

(***************************************************************************)
(* The random source.  A draw sequence ds is what the generator hands out, *)
(* one raw number per randbelow call; randbelow(n) reduces it to 0..n-1.   *)
(***************************************************************************)
randbelow(n, d) == d % n

\* random.shuffle(x): for i in reversed(range(1, len(x))): j = randbelow(i+1);
\* x[i], x[j] = x[j], x[i].  p is the 1-based position i+1.
RECURSIVE shuffle_from(_, _, _)
shuffle_from(x, p, ds) ==
  IF p < 2 THEN x
  ELSE shuffle_from(Swap(x, p, randbelow(p, Head(ds)) + 1), p - 1, Tail(ds))

\* A Fisher-Yates step that copies instead of swapping (mutant of shuffle).
RECURSIVE shuffle_overwrite_from(_, _, _)
shuffle_overwrite_from(x, p, ds) ==
  IF p < 2 THEN x
  ELSE shuffle_overwrite_from([x EXCEPT ![p] = x[randbelow(p, Head(ds)) + 1]], p - 1, Tail(ds))

shuffle_overwrite(x, ds) == shuffle_overwrite_from(x, Len(x), ds)

shuffle(x, ds) == shuffle_from(x, Len(x), ds)

\* random.sample(population, k): pool = list(population); for i in range(k):
\* j = randbelow(n-i); result[i] = pool[j]; pool[j] = pool[n-i-1].
RECURSIVE sample_from(_, _, _, _)
sample_from(pool, m, k, ds) ==
  IF k = 0 THEN <<>>
  ELSE LET j == randbelow(m, Head(ds)) + 1
       IN  <<pool[j]>> \o sample_from([pool EXCEPT ![j] = pool[m]], m - 1, k - 1, Tail(ds))

sample(population, k, ds) == sample_from(population, Len(population), k, ds)

(***************************************************************************)
(* Work selection & versions (utils.py)                                    *)
(***************************************************************************)
MIN_VERSIONS_REQUIRED == 3

\* A take whose "yt" is missing, None or empty is falsy: all are "" here.
Truthy(x) == x /= ""

valid_video_ids(videos) == SelectSeq(videos, Truthy)

has_min_versions(videos, n) == Len(valid_video_ids(videos)) >= n

pick_versions_from_ids(video_ids, count, ds) ==
  LET ids == SelectSeq(video_ids, Truthy)
  IN  IF Len(ids) <= count THEN shuffle(ids, ds) ELSE sample(ids, count, ds)

pick_versions(videos, count, ds) ==
  pick_versions_from_ids(valid_video_ids(videos), count, ds)

(***************************************************************************)
(* Text.  A Python str is a sequence of one-character strings.             *)
(***************************************************************************)
LowerOf(c) ==
  CASE c = "A" -> "a" [] c = "B" -> "b" [] c = "C" -> "c"
    [] c = "M" -> "m" [] c = "V" -> "v" [] OTHER -> c

lower(s) == [i \in 1..Len(s) |-> LowerOf(s[i])]

IsSpace(c) == c = " "

RECURSIVE lstrip(_)
lstrip(s) == IF s /= <<>> /\ IsSpace(Head(s)) THEN lstrip(Tail(s)) ELSE s

RECURSIVE rstrip(_)
rstrip(s) ==
  IF s /= <<>> /\ IsSpace(s[Len(s)]) THEN rstrip(SubSeq(s, 1, Len(s) - 1)) ELSE s

strip(s) == rstrip(lstrip(s))

\* Python's `sub in s`
contains(s, sub) ==
  \E i \in 0..(Len(s) - Len(sub)) : SubSeq(s, i + 1, i + Len(sub)) = sub

\* " ".join(parts)
RECURSIVE join(_)
join(parts) ==
  IF parts = <<>> THEN <<>>
  ELSE IF Len(parts) = 1 THEN parts[1]
       ELSE parts[1] \o <<" ">> \o join(Tail(parts))

(***************************************************************************)
(* The catalog (data/works.json as load_catalog returns it).  w1 and w2    *)
(* are the works of the end-to-end scenarios A and B.                      *)
(***************************************************************************)
Works == <<
  [id |-> "w1", title |-> <<"A", "h">>, composer |-> <<"M">>, aliases |-> <<>>,
   videos |-> <<"a", "b", "c", "">>],
  [id |-> "w2", title |-> <<"B", "o">>, composer |-> <<"M">>, aliases |-> <<>>,
   videos |-> <<"x", "y">>],
  [id |-> "w3", title |-> <<"C", "i">>, composer |-> <<"V">>,
   aliases |-> << <<"A", "x">> >>,
   videos |-> <<"d", "", "e", "f">>] >>

WorkIds == {Works[i].id : i \in 1..Len(Works)}

\* w["_search"] of load_catalog
search_text(w) == lower(join(<<w.title, w.composer>> \o w.aliases))

\* next((w for w in works if w["id"] == work_id), None)
NoWork == [id |-> None, videos |-> <<>>]

RECURSIVE find_from(_, _)
find_from(i, work_id) ==
  IF i > Len(Works) THEN NoWork
  ELSE IF Works[i].id = work_id THEN Works[i] ELSE find_from(i + 1, work_id)

find_work(work_id) == find_from(1, work_id)

\* Every work passes the filter (mutant of IsEligible).
AlwaysEligible(w) == TRUE

\* has_min_versions(w, MIN_VERSIONS_REQUIRED)
IsEligible(w) == has_min_versions(w.videos, MIN_VERSIONS_REQUIRED)

\* eligible_works = [w for w in works if len([...yt...]) >= MIN_VERSIONS_REQUIRED]
eligible_works == SelectSeq(Works, IsEligible)

\* The filter without its "if q.strip() else []" (mutant of search_matches).
search_matches_unguarded(q) ==
  SelectSeq(eligible_works, LAMBDA w : contains(search_text(w), lower(strip(q))))

\* [w for w in eligible_works if q.strip().lower() in w["_search"]] if q.strip() else []
search_matches(q) ==
  IF strip(q) /= <<>>
  THEN SelectSeq(eligible_works, LAMBDA w : contains(search_text(w), lower(strip(q))))
  ELSE <<>>

\* What the user can type into a search box
Queries == {<<>>, <<" ">>, <<"M", " ">>, <<"a">>, <<"z">>}

\* the same list, worked out once per query
MatchTable == [q \in Queries |-> search_matches(q)]
matches_for(q) == MatchTable[q]

\* The work the Random/Search chooser hands to the button: random.choice of
\* the eligible works, or any entry of the selectbox over the matches.
ChoosableWorks ==
  Range(eligible_works) \cup UNION {Range(search_matches(q)) : q \in Queries}

(***************************************************************************)
(* Inputs of the party screens                                             *)
(***************************************************************************)
\* st.number_input("Number of takes", min_value=3, max_value=10)
MinTakesInput == 3
MaxTakesInput == 10
DefaultTakes == 5
TakeCounts == MinTakesInput..MaxTakesInput

\* What the process-wide generator draws during one party-mode pick: it is
\* never seeded in party mode, so any of these.
PartyDraws == {<<0, 0, 0, 0>>, <<1, 0, 1, 0>>}

\* every list pick_versions can return for a work and a count
PickOutcomes(w, count) == {pick_versions(w.videos, count, ds) : ds \in PartyDraws}

\* (work, takes) pairs the create and change-aria buttons can produce
SelectionChoices ==
  UNION {{<<w.id, vids>> : vids \in UNION {PickOutcomes(w, c) : c \in TakeCounts}} :
         w \in ChoosableWorks}

\* takes a reshuffle of a work can produce
ReshuffleChoices ==
  [i \in 1..Len(Works) |-> UNION {PickOutcomes(Works[i], c) : c \in TakeCounts}]

IndexOfWork(work_id) == CHOOSE i \in 1..Len(Works) : Works[i].id = work_id

(***************************************************************************)
(* Party mode: users, browser views, the store                             *)
(***************************************************************************)
Users == {"u1", "u2"}

\* A view is one Streamlit session (a browser tab) with its session_state.
\* v1 and v2 are two tabs of the same person.
Views == {"v1", "v2", "v3"}
UserOf(v) == IF v = "v3" THEN "u2" ELSE "u1"

MaxSessions == 1
SessionIds == 1..MaxSessions

Roles == {"owner", "member"}
MemberRows == SessionIds \X Users \X Roles

NoRow == [work_id |-> None]
DefaultTitle == "Blind listening session"
TitleInputs == {""}

NoSession == 0

\* the parts of the program that run the party script
PartyScopes == {"party", "seq", "faulty", "notes", "play", "forged", "frame"}

\* the specifications whose views render the player loop and the notepad
NoteScopes == {"notes", "frame"}

NoNote == [comment |-> None]

\* sid, role, sess: party_session_id, party_role, party_session of the run;
\* idx, saved, sent: the player loop; created: the row the view has just
\* created and reruns on, where it is remembered (NoRow in every other run)
NoLoc == [sid |-> NoSession, role |-> None, sess |-> NoRow,
          idx |-> 0, saved |-> NoNote, sent |-> NoNote, created |-> NoRow]

(***************************************************************************)
(* Bounds of SpecPick                                                      *)
(***************************************************************************)
MaxLen == 3
MaxPickCount == 4
PickIds == {"", "a", "b", "c"}
PickDraws == [1..MaxLen -> 0..MaxLen]

VARIABLES
  pk_pc, pk_videos, pk_count, pk_out,   \* SpecPick: input and result of one call
  sessions,            \* game_sessions: id -> row, NoRow while not inserted
  members,             \* session_members: row -> number of copies in the table
  auth,                \* view -> user_id of st.session_state["sb_auth"], or None
  wants_party_mode,    \* view -> st.session_state.wants_party_mode
  session_param,       \* view -> the ?session= query parameter, or NoSession
  active_session_id,   \* view -> st.session_state.active_session_id, or NoSession
  pc,                  \* view -> where its script run stands
  loc,                 \* view -> locals of the script run (party_session_id,
                       \*         party_role, party_session, the player loop)
  notes,               \* session_notes: the rows of the table
  play,                \* party view -> now_playing and played_by_work of its
                       \*               st.session_state
  session_state,       \* solo view: solo_work_id, shuffle_seed, now_playing,
                       \*            played_by_work of st.session_state
  widgets,             \* solo view: values of the Mode radio, the search box,
                       \*            the selectbox and the take-count input
  rng,                 \* state of the process-wide generator of `random`
  solo_pc,             \* solo view: where its script run stands
  event,               \* solo view: the click the script run in progress handles
  foreign_draws,       \* draws other sessions took from the generator so far
  shown,               \* solo view: the take list the last script run displayed
  scope                \* the part of the program the behaviour exercises

pickVars == <<pk_pc, pk_videos, pk_count, pk_out, scope>>
storeVars == <<sessions, members, notes>>
viewVars == <<auth, wants_party_mode, session_param, active_session_id, pc, loc>>
partyVars == <<sessions, members, auth, wants_party_mode, session_param,
               active_session_id, pc, loc, notes, play>>
soloVars == <<session_state, widgets, rng, shown, solo_pc, event, foreign_draws>>
vars == <<pk_pc, pk_videos, pk_count, pk_out, sessions, members, auth,
          wants_party_mode, session_param, active_session_id, pc, loc, notes,
          play, session_state, widgets, rng, shown, solo_pc, event, foreign_draws,
          scope>>

NoEvent == [kind |-> "none", vid |-> ""]

\* init_session_state, the widgets at their defaults, nothing displayed yet
SoloIdle ==
  /\ session_state = [solo_work_id |-> None, shuffle_seed |-> 0, now_playing |-> None,
                      played_by_work |-> [w \in WorkIds |-> {}]]
  /\ widgets = [solo_mode |-> "Random aria", q |-> <<>>, sel |-> 1,
                versions_count |-> DefaultTakes]
  /\ shown = <<>>
  /\ solo_pc = "idle"
  /\ event = NoEvent
  /\ foreign_draws = 0

\* init_session_state and an empty store
\* init_session_state: now_playing None, played_by_work {}
NoPlay == [now_playing |-> None, played_by_work |-> [w \in WorkIds |-> {}]]

PartyIdle ==
  /\ play = [v \in Views |-> NoPlay]
  /\ sessions = [s \in SessionIds |-> NoRow]
  /\ members = [r \in MemberRows |-> 0]
  /\ auth = [v \in Views |-> None]
  /\ wants_party_mode = [v \in Views |-> FALSE]
  /\ session_param = [v \in Views |-> NoSession]
  /\ active_session_id = [v \in Views |-> NoSession]
  /\ pc = [v \in Views |-> "idle"]
  /\ loc = [v \in Views |-> NoLoc]
  /\ notes = {}

PickIdle ==
  /\ pk_pc = "off"
  /\ pk_videos = <<>>
  /\ pk_count = 0
  /\ pk_out = <<>>

InitPick ==
  /\ scope = "pick"
  /\ pk_pc = "in"
  /\ pk_videos \in SeqsUpTo(PickIds, MaxLen)
  /\ pk_count \in 0..MaxPickCount
  /\ pk_out = <<>>
  /\ PartyIdle
  /\ SoloIdle
  /\ rng = 0

\* pick_versions(work, count) with whatever the generator draws
Pick ==
  /\ pk_pc = "in"
  /\ \E ds \in PickDraws :
       pk_out' = pick_versions(pk_videos, pk_count, ds)
  /\ pk_pc' = "out"
  /\ UNCHANGED <<pk_videos, pk_count, scope>>
  /\ UNCHANGED <<partyVars, soloVars>>

NextPick == Pick

SpecPick == InitPick /\ [][NextPick]_vars

(***************************************************************************)
(* Claims about pick_versions (checked under SpecPick)                     *)
(***************************************************************************)
\* E of the claims: the non-empty take identifiers, in catalog order.
RECURSIVE EligibleIds(_)
EligibleIds(videos) ==
  IF videos = <<>> THEN <<>>
  ELSE IF Head(videos) = "" THEN EligibleIds(Tail(videos))
       ELSE <<Head(videos)>> \o EligibleIds(Tail(videos))

Occurrences(s, x) == Cardinality({i \in 1..Len(s) : s[i] = x})

PairwiseDistinct(s) == \A i, j \in 1..Len(s) : i /= j => s[i] /= s[j]

IsPermutationOf(s, t) ==
  /\ Len(s) = Len(t)
  /\ \A x \in Range(s) \cup Range(t) : Occurrences(s, x) = Occurrences(t, x)

\* C6: for count <= |E| pick_versions returns exactly count identifiers,
\* pairwise distinct, each an element of E.
C6_PickExactDistinct ==
  (pk_pc = "out" /\ pk_count <= Len(EligibleIds(pk_videos))) =>
    /\ Len(pk_out) = pk_count
    /\ PairwiseDistinct(pk_out)
    /\ Range(pk_out) \subseteq Range(EligibleIds(pk_videos))

\* C7: for count >= |E| pick_versions returns a permutation of E (every
\* element of E exactly once, nothing else); for empty E the empty sequence.
C7_PickAllPermutation ==
  (pk_pc = "out" /\ pk_count >= Len(EligibleIds(pk_videos))) =>
    /\ IsPermutationOf(pk_out, EligibleIds(pk_videos))
    /\ (EligibleIds(pk_videos) = <<>> => pk_out = <<>>)

C7_Witness ==
  /\ pk_pc = "out"
  /\ pk_videos = <<"a", "", "b">>
  /\ pk_count = 3
  /\ pk_out = <<"b", "a">>


(***************************************************************************)
(* Party mode: the script of app_old.py (ui/header.py, ui/session.py and   *)
(* db.py are its modular copy), one store request per step.                *)
(***************************************************************************)
\* header: party_session_id = session_param or st.session_state.active_session_id
party_session_id(v) ==
  IF session_param[v] /= NoSession THEN session_param[v] ELSE active_session_id[v]

is_invite_link(v) == session_param[v] /= NoSession

party_mode(v) == party_session_id(v) /= NoSession \/ wants_party_mode[v]

\* Every view counts as logged in (mutant of is_logged_in).
is_logged_in_always(v) == TRUE

is_logged_in(v) == auth[v] /= None

\* sb_auth holds the user_id and the access_token of one verify_otp
\* response; TokenOf(u) is the token of u's login, Anon the client that
\* carries the anon key only.
Anon == "anon"
TokenOf(u) == <<"token", u>>

\* get_user_id: sb_auth.user_id
get_user_id(v) == auth[v]

\* get_authed_client: create_sb_client(token), create_sb_client(None)
\* without a token; the credential the returned client sends
get_authed_client(v) == IF auth[v] = None THEN Anon ELSE TokenOf(auth[v])

\* session_members rows of one (session_id, user_id) pair
RowsOf(s, u) == {r \in MemberRows : r[1] = s /\ r[2] = u /\ members[r] > 0}
RowCount(s, u) == members[<<s, u, "owner">>] + members[<<s, u, "member">>]

\* sb.table("session_members").insert(row).execute()
insert_member(s, u, role) == [members EXCEPT ![<<s, u, role>>] = @ + 1]

\* The id the store gives the next inserted game_sessions row
HasFreeId == \E s \in SessionIds : sessions[s] = NoRow
NextId == CHOOSE s \in SessionIds :
            sessions[s] = NoRow /\ \A t \in SessionIds : t < s => sessions[t] /= NoRow

\* owner_id of a row inserted without one (db.py:56): the column default,
\* which is the inserting user's id or NULL depending on the table.
OwnerDefault(u) == {u, None}

\* The view has done nothing yet: session_state as init_session_state left it
Fresh(v) ==
  /\ auth[v] = None
  /\ ~wants_party_mode[v]
  /\ session_param[v] = NoSession
  /\ active_session_id[v] = NoSession

\* The link of a session exists once a view shows it in its URL
\* (set_session_param after create_party_session returned).
Shared(sid) == \E w \in Views : session_param[w] = sid

\* A page load with ?session=sid starts a new Streamlit session.
OpenLink(v, sid) ==
  /\ scope \in PartyScopes
  /\ pc[v] = "idle"
  /\ Fresh(v)
  /\ Shared(sid)
  /\ auth' = [auth EXCEPT ![v] = None]
  /\ wants_party_mode' = [wants_party_mode EXCEPT ![v] = FALSE]
  /\ active_session_id' = [active_session_id EXCEPT ![v] = NoSession]
  /\ session_param' = [session_param EXCEPT ![v] = sid]
  /\ UNCHANGED <<pickVars, soloVars, play, notes, sessions, members, pc, loc>>

\* "Play with someone" button (rendered when the URL holds no session)
PlayWithSomeone(v) ==
  /\ scope \in PartyScopes
  /\ pc[v] = "idle"
  /\ ~is_invite_link(v)
  /\ ~wants_party_mode[v]
  /\ wants_party_mode' = [wants_party_mode EXCEPT ![v] = TRUE]
  /\ UNCHANGED <<pickVars, soloVars, play, notes, sessions, members, auth, session_param, active_session_id, pc, loc>>

\* require_login_block: "Verify code" succeeded
Login(v) ==
  /\ scope \in PartyScopes
  /\ pc[v] = "idle"
  /\ party_mode(v)
  /\ ~is_logged_in(v)
  /\ auth' = [auth EXCEPT ![v] = UserOf(v)]
  /\ UNCHANGED <<pickVars, soloVars, play, notes, sessions, members, wants_party_mode, session_param,
                 active_session_id, pc, loc>>

\* "Log out" (rendered without an invite link, in party mode, logged in)
Logout(v) ==
  /\ scope \in PartyScopes
  /\ pc[v] = "idle"
  /\ ~is_invite_link(v)
  /\ party_mode(v)
  /\ is_logged_in(v)
  /\ auth' = [auth EXCEPT ![v] = None]
  /\ active_session_id' = [active_session_id EXCEPT ![v] = NoSession]
  /\ session_param' = [session_param EXCEPT ![v] = NoSession]
  /\ UNCHANGED <<pickVars, soloVars, play, storeVars, wants_party_mode, pc, loc>>

\* ensure_member inserts whatever the select returned (mutant of JoinSelect).
JoinSelect_AlwaysInsert(v) ==
  /\ scope \in PartyScopes
  /\ pc[v] \in {"idle", "rerun"}
  /\ is_logged_in(v)
  /\ party_session_id(v) /= NoSession
  /\ loc' = [loc EXCEPT ![v] = [NoLoc EXCEPT !.sid = party_session_id(v),
                                              !.created = loc[v].created]]
  /\ pc' = [pc EXCEPT ![v] = "ensure_insert"]
  /\ UNCHANGED <<pickVars, soloVars, play, notes, sessions, members, auth,
                 wants_party_mode, session_param, active_session_id>>

\* A script run of a logged-in party view that holds a session id starts:
\* ensure_member's select.
JoinSelect(v) ==
  /\ scope \in PartyScopes
  /\ pc[v] \in {"idle", "rerun"}
  /\ is_logged_in(v)
  /\ party_session_id(v) /= NoSession
  /\ LET sid == party_session_id(v)
     IN  /\ loc' = [loc EXCEPT ![v] = [NoLoc EXCEPT !.sid = sid,
                                                     !.created = loc[v].created]]
         /\ pc' = [pc EXCEPT ![v] =
                     IF RowsOf(sid, auth[v]) = {} THEN "ensure_insert" ELSE "get_role"]
  /\ UNCHANGED <<pickVars, soloVars, play, notes, sessions, members, auth, wants_party_mode, session_param,
                 active_session_id>>

\* The insert writes the role "owner" (mutant of EnsureInsert).
EnsureInsert_AsOwner(v) ==
  /\ scope \in PartyScopes
  /\ pc[v] = "ensure_insert"
  /\ members' = insert_member(loc[v].sid, auth[v], "owner")
  /\ pc' = [pc EXCEPT ![v] = "get_role"]
  /\ UNCHANGED <<pickVars, soloVars, play, notes, sessions, auth, wants_party_mode, session_param,
                 active_session_id, loc>>

\* ensure_member goes on without its insert (mutant of EnsureInsert).
EnsureInsert_Skipped(v) ==
  /\ scope \in PartyScopes
  /\ pc[v] = "ensure_insert"
  /\ pc' = [pc EXCEPT ![v] = "get_role"]
  /\ UNCHANGED <<pickVars, soloVars, play, notes, sessions, members, auth, wants_party_mode,
                 session_param, active_session_id, loc>>

\* ensure_member's insert, issued because the select returned no row
EnsureInsert(v) ==
  /\ scope \in PartyScopes
  /\ pc[v] = "ensure_insert"
  /\ members' = insert_member(loc[v].sid, auth[v], "member")
  /\ pc' = [pc EXCEPT ![v] = "get_role"]
  /\ UNCHANGED <<pickVars, soloVars, play, notes, sessions, auth, wants_party_mode, session_param,
                 active_session_id, loc>>

\* get_member_role: mem.data[0].get("role") of a select without ORDER BY,
\* None when the select returns no row; the values a call can return
get_member_role(s, u) ==
  IF RowsOf(s, u) = {} THEN {None} ELSE {r[3] : r \in RowsOf(s, u)}

GetRole(v) ==
  /\ scope \in PartyScopes
  /\ pc[v] = "get_role"
  /\ \E role \in get_member_role(loc[v].sid, auth[v]) :
       loc' = [loc EXCEPT ![v].role = role]
  /\ pc' = [pc EXCEPT ![v] = "load"]
  /\ UNCHANGED <<pickVars, soloVars, play, notes, sessions, members, auth, wants_party_mode, session_param,
                 active_session_id>>

\* load_party_session, then active_session_id and the query parameter are
\* set; .single() raises when the session has no row and the run stops.
LoadSession(v) ==
  /\ scope \in PartyScopes
  /\ pc[v] = "load"
  /\ IF sessions[loc[v].sid] = NoRow
     THEN /\ pc' = [pc EXCEPT ![v] = "idle"]
          /\ loc' = [loc EXCEPT ![v] = NoLoc]
          /\ UNCHANGED <<pickVars, soloVars, play, notes, active_session_id, session_param>>
     ELSE /\ pc' = [pc EXCEPT ![v] = "controls"]
          /\ loc' = [loc EXCEPT ![v].sess = sessions[loc[v].sid]]
          /\ active_session_id' = [active_session_id EXCEPT ![v] = loc[v].sid]
          /\ session_param' = [session_param EXCEPT ![v] = loc[v].sid]
  /\ UNCHANGED <<pickVars, soloVars, play, notes, sessions, members, auth, wants_party_mode>>

\* "Determine current work + takes" of the loaded session
current_work(v) == find_work(loc[v].sess.work_id)
versions(v) == SelectSeq(loc[v].sess.video_ids, Truthy)

\* The run reaches the owner controls: the work is in the catalog and the
\* selection has at least MIN_VERSIONS_REQUIRED takes.
ReachesControls(v) ==
  /\ pc[v] = "controls"
  /\ current_work(v).id /= None
  /\ Len(versions(v)) >= MIN_VERSIONS_REQUIRED

\* Any member passes the gate (mutant of is_owner_app_old).
is_owner_any_member(v) == loc[v].role /= None

\* app_old.py:613
is_owner_app_old(v) ==
  loc[v].role = "owner" \/ loc[v].sess.owner_id = auth[v]

\* ui/session.py:71
is_owner_ui(v) == loc[v].sess.owner_id = auth[v]

Builds == {"app_old", "ui"}
is_owner(build, v) ==
  IF build = "app_old" THEN is_owner_app_old(v) ELSE is_owner_ui(v)

\* The update sends the work alone and leaves the stored takes (mutant of
\* update_party_session_work).
update_party_session_work_alone(sid, work_id, video_ids) ==
  IF sessions[sid] = NoRow THEN sessions
  ELSE [sessions EXCEPT ![sid].work_id = work_id]

\* sb.table("game_sessions").update({...}).eq("id", session_id).execute()
update_party_session_work(sid, work_id, video_ids) ==
  IF sessions[sid] = NoRow THEN sessions
  ELSE [sessions EXCEPT ![sid].work_id = work_id, ![sid].video_ids = video_ids]

\* The update clears owner_id too (mutant of update_party_session_takes).
update_party_session_takes_and_owner(sid, video_ids) ==
  IF sessions[sid] = NoRow THEN sessions
  ELSE [sessions EXCEPT ![sid].video_ids = video_ids, ![sid].owner_id = None]

update_party_session_takes(sid, video_ids) ==
  IF sessions[sid] = NoRow THEN sessions
  ELSE [sessions EXCEPT ![sid].video_ids = video_ids]

\* The run ends without an owner mutation: a first load, "Refresh session",
\* a player or notepad widget, or the stop on a missing work / short list.
ViewSession(v) ==
  /\ scope \in PartyScopes
  /\ pc[v] = "controls"
  /\ pc' = [pc EXCEPT ![v] = "idle"]
  /\ loc' = [loc EXCEPT ![v] = NoLoc]
  /\ UNCHANGED <<pickVars, soloVars, play, notes, sessions, members, auth, wants_party_mode, session_param,
                 active_session_id>>

\* "Change aria now"
\* "Change aria" without the reset of now_playing
ChangeAria_KeepPlaying(v) ==
  /\ scope \in PartyScopes
  /\ ReachesControls(v)
  /\ \E build \in Builds : is_owner(build, v)
  /\ \E sel \in SelectionChoices :
       sessions' = update_party_session_work(loc[v].sid, sel[1], sel[2])
  /\ pc' = [pc EXCEPT ![v] = "idle"]
  /\ loc' = [loc EXCEPT ![v] = NoLoc]
  /\ UNCHANGED <<pickVars, soloVars, play, notes, members, auth, wants_party_mode, session_param, active_session_id>>

\* "Change aria": update the row, st.session_state.now_playing = None,
\* st.rerun(); played_by_work is left as it is
ChangeAria(v) ==
  /\ scope \in PartyScopes
  /\ ReachesControls(v)
  /\ \E build \in Builds : is_owner(build, v)
  /\ \E sel \in SelectionChoices :
       sessions' = update_party_session_work(loc[v].sid, sel[1], sel[2])
  /\ play' = [play EXCEPT ![v].now_playing = None]
  /\ pc' = [pc EXCEPT ![v] = "idle"]
  /\ loc' = [loc EXCEPT ![v] = NoLoc]
  /\ UNCHANGED <<pickVars, soloVars, notes, members, auth, wants_party_mode, session_param, active_session_id>>

\* The reshuffle clears the notes of the session (mutant of Reshuffle).
Reshuffle_ClearingNotes(v) ==
  /\ scope \in PartyScopes
  /\ ReachesControls(v)
  /\ \E build \in Builds : is_owner(build, v)
  /\ \E new_vids \in ReshuffleChoices[IndexOfWork(current_work(v).id)] :
       sessions' = update_party_session_takes(loc[v].sid, new_vids)
  /\ notes' = {r \in notes : r.session_id /= loc[v].sid}
  /\ play' = [play EXCEPT ![v].now_playing = None]
  /\ pc' = [pc EXCEPT ![v] = "idle"]
  /\ loc' = [loc EXCEPT ![v] = NoLoc]
  /\ UNCHANGED <<pickVars, soloVars, members, auth, wants_party_mode, session_param, active_session_id>>

\* "Reshuffle takes (same aria)"
Reshuffle(v) ==
  /\ scope \in PartyScopes
  /\ ReachesControls(v)
  /\ \E build \in Builds : is_owner(build, v)
  /\ \E new_vids \in ReshuffleChoices[IndexOfWork(current_work(v).id)] :
       sessions' = update_party_session_takes(loc[v].sid, new_vids)
  /\ play' = [play EXCEPT ![v].now_playing = None]
  /\ pc' = [pc EXCEPT ![v] = "idle"]
  /\ loc' = [loc EXCEPT ![v] = NoLoc]
  /\ UNCHANGED <<pickVars, soloVars, notes, members, auth, wants_party_mode, session_param, active_session_id>>

\* title.strip() or "Blind listening session"
session_title(text) == IF text = "" THEN DefaultTitle ELSE text

\* The row a creation wrote is remembered through the creator's rerun where
\* script runs are taken one at a time; it is history, no script reads it.
Remembered(row) == IF scope = "seq" THEN row ELSE NoRow

\* "Create shared session": pick_versions and create_party_session's insert
\* into game_sessions
CreateSession(v) ==
  /\ scope \in PartyScopes
  /\ pc[v] = "idle"
  /\ is_logged_in(v)
  /\ party_mode(v)
  /\ party_session_id(v) = NoSession
  /\ HasFreeId
  /\ \E sel \in SelectionChoices, text \in TitleInputs, owner \in OwnerDefault(auth[v]) :
       /\ Len(sel[2]) >= MIN_VERSIONS_REQUIRED
       /\ sessions' = [sessions EXCEPT ![NextId] =
                         [title |-> session_title(text), work_id |-> sel[1],
                          video_ids |-> sel[2], owner_id |-> owner]]
       /\ loc' = [loc EXCEPT ![v] = [NoLoc EXCEPT !.sid = NextId,
                                                   !.created = Remembered(sessions'[NextId])]]
  /\ pc' = [pc EXCEPT ![v] = "create_owner"]
  /\ UNCHANGED <<pickVars, soloVars, play, notes, members, auth, wants_party_mode, session_param, active_session_id>>

\* The owner row is skipped (mutant of CreateOwner).
CreateOwner_NoInsert(v) ==
  /\ scope \in PartyScopes
  /\ pc[v] = "create_owner"
  /\ active_session_id' = [active_session_id EXCEPT ![v] = loc[v].sid]
  /\ session_param' = [session_param EXCEPT ![v] = loc[v].sid]
  /\ pc' = [pc EXCEPT ![v] = "rerun"]
  /\ UNCHANGED <<pickVars, soloVars, play, notes, sessions, members, auth,
                 wants_party_mode, loc>>

\* create_party_session's insert of the owner row, then the view adopts the
\* new session and st.rerun() starts its next run at once ("rerun")
CreateOwner(v) ==
  /\ scope \in PartyScopes
  /\ pc[v] = "create_owner"
  /\ members' = IF auth[v] /= None THEN insert_member(loc[v].sid, auth[v], "owner")
                ELSE members
  /\ active_session_id' = [active_session_id EXCEPT ![v] = loc[v].sid]
  /\ session_param' = [session_param EXCEPT ![v] = loc[v].sid]
  /\ pc' = [pc EXCEPT ![v] = "rerun"]
  /\ UNCHANGED <<pickVars, soloVars, play, notes, sessions, auth, wants_party_mode, loc>>

Init == scope = "party" /\ PickIdle /\ PartyIdle /\ SoloIdle /\ rng = 0

Next ==
  \/ \E v \in Views, sid \in SessionIds : OpenLink(v, sid)
  \/ \E v \in Views : PlayWithSomeone(v)
  \/ \E v \in Views : Login(v)
  \/ \E v \in Views : JoinSelect(v)
  \/ \E v \in Views : EnsureInsert(v)
  \/ \E v \in Views : GetRole(v)
  \/ \E v \in Views : LoadSession(v)
  \/ \E v \in Views : ViewSession(v)
  \/ \E v \in Views : ChangeAria(v)
  \/ \E v \in Views : Reshuffle(v)
  \/ \E v \in Views : CreateSession(v)
  \/ \E v \in Views : CreateOwner(v)
  \/ \E v \in Views : Logout(v)

Spec == Init /\ [][Next]_vars

\* One script run at a time: a view steps only while every other view is
\* between runs.
Quiet(v) == \A w \in Views \ {v} : pc[w] = "idle"

NextSeq ==
  \/ \E v \in Views, sid \in SessionIds : Quiet(v) /\ OpenLink(v, sid)
  \/ \E v \in Views : Quiet(v) /\ PlayWithSomeone(v)
  \/ \E v \in Views : Quiet(v) /\ Login(v)
  \/ \E v \in Views : Quiet(v) /\ JoinSelect(v)
  \/ \E v \in Views : Quiet(v) /\ EnsureInsert(v)
  \/ \E v \in Views : Quiet(v) /\ GetRole(v)
  \/ \E v \in Views : Quiet(v) /\ LoadSession(v)
  \/ \E v \in Views : Quiet(v) /\ ViewSession(v)
  \/ \E v \in Views : Quiet(v) /\ ChangeAria(v)
  \/ \E v \in Views : Quiet(v) /\ Reshuffle(v)
  \/ \E v \in Views : Quiet(v) /\ CreateSession(v)
  \/ \E v \in Views : Quiet(v) /\ CreateOwner(v)
  \/ \E v \in Views : Quiet(v) /\ Logout(v)

InitSeq == scope = "seq" /\ PickIdle /\ PartyIdle /\ SoloIdle /\ rng = 0

SpecSeq == InitSeq /\ [][NextSeq]_vars

(***************************************************************************)
(* Claims about the party session store                                    *)
(***************************************************************************)
Exists(s) == sessions[s] /= NoRow

\* the view whose script took the step
Stepped(v) ==
  \/ pc'[v] /= pc[v]
  \/ auth'[v] /= auth[v]
  \/ wants_party_mode'[v] /= wants_party_mode[v]
  \/ session_param'[v] /= session_param[v]

HoldsOwnerRow(s, u) == members[<<s, u, "owner">>] > 0

SelectionChanged(s) ==
  /\ Exists(s)
  /\ \/ sessions'[s].work_id /= sessions[s].work_id
     \/ sessions'[s].video_ids /= sessions[s].video_ids

\* C1: no step of a user who is not the owner of a session changes the
\* session's work_id or take_ids.
C1_NonOwnerNeverMutates ==
  [][\A s \in SessionIds, v \in Views :
       (Stepped(v) /\ ~HoldsOwnerRow(s, UserOf(v))) => ~SelectionChanged(s)]_vars

C1_Witness ==
  \E v \in Views :
    /\ pc[v] = "controls"
    /\ loc[v].role = "member"
    /\ ~HoldsOwnerRow(loc[v].sid, auth[v])
    /\ \E u \in Users \ {auth[v]} : HoldsOwnerRow(loc[v].sid, u)
    /\ loc[v].sess /= sessions[loc[v].sid]

OwnerRows(s) == members[<<s, "u1", "owner">>] + members[<<s, "u2", "owner">>]
MemberRowsOf(s) == RowCount(s, "u1") + RowCount(s, "u2")

\* a create_party_session call stands between its two inserts for s
BeingCreated(s) == \E v \in Views : pc[v] = "create_owner" /\ loc[v].sid = s

\* C2 as stated: in every state of the store, the states between the two
\* writes of a create included, every session row has exactly one owner
\* membership row and never zero memberships.
C2_OwnerRowInEveryState ==
  \A s \in SessionIds : Exists(s) => (OwnerRows(s) = 1 /\ MemberRowsOf(s) >= 1)

\* C2 amended: every session row whose create_party_session has returned
\* has exactly one owner membership row; between the two inserts the new
\* session row stands without any membership row of its creator's making.
C2_OwnerRowOnceCreated ==
  \A s \in SessionIds :
    /\ (Exists(s) /\ ~BeingCreated(s)) => (OwnerRows(s) = 1 /\ MemberRowsOf(s) >= 1)
    /\ (Exists(s) /\ BeingCreated(s)) => OwnerRows(s) = 0

C2_Witness ==
  \E s \in SessionIds :
    /\ Exists(s) /\ ~BeingCreated(s)
    /\ OwnerRows(s) = 1
    /\ MemberRowsOf(s) >= 2

\* C3: at most one membership row per (session_id, user_id), in every
\* interleaving of the ensure_member calls.
C3_OneRowPerPair ==
  \A s \in SessionIds, u \in Users : RowCount(s, u) <= 1

\* C4: sequential ensure_member calls are idempotent: when a call returns the
\* pair has exactly one row, and a call for a pair that had a row leaves the
\* table as it was (the same row, an owner still owner).
C4_EnsureMemberIdempotent ==
  [][\A v \in Views :
       (pc'[v] = "get_role" /\ pc[v] /= "get_role") =>
         /\ members'[<<loc'[v].sid, auth[v], "owner">>]
              + members'[<<loc'[v].sid, auth[v], "member">>] = 1
         /\ RowCount(loc'[v].sid, auth[v]) >= 1 => members' = members]_vars

C4_Witness ==
  \E v \in Views :
    /\ pc[v] = "get_role"
    /\ active_session_id[v] = loc[v].sid
    /\ members[<<loc[v].sid, auth[v], "owner">>] = 1
    /\ members[<<loc[v].sid, auth[v], "member">>] = 0
    /\ \E u \in Users \ {auth[v]} : members[<<loc[v].sid, u, "member">>] = 1

\* C5: every stored take id is a non-empty take id of the stored work.
C5_TakesBelongToWork ==
  \A s \in SessionIds :
    Exists(s) =>
      Range(sessions[s].video_ids) \subseteq
        Range(EligibleIds(find_work(sessions[s].work_id).videos))


(***************************************************************************)
(* Solo mode (app.py, app_old.py): one view, no store                      *)
(***************************************************************************)
MaxSeed == 4
RngMod == 6
MaxDraws == 5
MaxSoloCount == 5
MaxForeignDraws == 1

\* st.number_input("Number of takes (max)", min_value=3, max_value=10, value=5)
SoloCounts == MinTakesInput..MaxSoloCount
SoloModes == {"Random aria", "Search"}
SoloBuilds == {"app", "app_old"}

\* The generator of `random`: a state, the value it hands out, the next state.
Lcg(r) == (r + 1) % RngMod

RECURSIVE Stream(_, _)
Stream(r, n) == IF n = 0 THEN <<>> ELSE <<r>> \o Stream(Lcg(r), n - 1)

RECURSIVE Advance(_, _)
Advance(r, n) == IF n = 0 THEN r ELSE Advance(Lcg(r), n - 1)

\* random.seed(f"{work_id}-{shuffle_seed}"): the state depends on the string only
random_seed(r, work_id, n) == (2 * IndexOfWork(work_id) + n) % RngMod

\* draws random.shuffle(x) takes
DrawsOfShuffle(x) == IF Len(x) < 2 THEN 0 ELSE Len(x) - 1

\* draws pick_versions_from_ids takes
DrawsOfPick(videos, count) ==
  LET ids == valid_video_ids(videos)
  IN  IF Len(ids) <= count THEN DrawsOfShuffle(ids) ELSE count

\* random.choice(eligible_works)
random_choice(seq, r) == seq[randbelow(Len(seq), r) + 1]

\* set_random_work_id()
set_random_work_id(ss, r) ==
  LET w == random_choice(eligible_works, r)
  IN  [ss |-> [ss EXCEPT !.solo_work_id = w.id,
                         !.shuffle_seed = @ + 1,
                         !.now_playing = None,
                         !.played_by_work[w.id] = {}],
       rng |-> Lcg(r)]


\* The Mode branch of the script: the two buttons of "Random aria", or the
\* search box and selectbox of "Search" (which assign on every run).
solo_mode_branch(a, w, ev) ==
  IF w.solo_mode = "Random aria"
  THEN IF ev.kind = "new_random" THEN set_random_work_id(a.ss, a.rng)
       ELSE IF ev.kind = "reshuffle"
            THEN [a EXCEPT !.ss.shuffle_seed = @ + 1, !.ss.now_playing = None]
            ELSE a
  ELSE LET matches == matches_for(w.q)
       IN  IF matches /= <<>>
           THEN LET id == matches[w.sel].id
                IN  [a EXCEPT !.ss.solo_work_id = id,
                              !.ss.shuffle_seed = @ + 1,
                              !.ss.now_playing = None,
                              !.ss.played_by_work[id] = {}]
           ELSE a

\* The player: "Stop playback", then one Listen and one Stop button per take
\* displayed by this run.
solo_player(ss, work_id, takes, ev) ==
  LET s1 == IF ev.kind = "stop_all" THEN [ss EXCEPT !.now_playing = None] ELSE ss
  IN  IF ev.kind = "listen" /\ ev.vid \in Range(takes)
      THEN [s1 EXCEPT !.now_playing = ev.vid,
                      !.played_by_work[work_id] = @ \cup {ev.vid}]
      ELSE IF ev.kind = "stop" /\ ev.vid \in Range(takes) /\ s1.now_playing = ev.vid
           THEN [s1 EXCEPT !.now_playing = None]
           ELSE s1

\* The script in solo mode from the Mode radio to the seeding call.
solo_top(ss, w, r, ev) ==
  LET a == IF ss.solo_work_id = None THEN set_random_work_id(ss, r)
           ELSE [ss |-> ss, rng |-> r]
      b == solo_mode_branch(a, w, ev)
  IN  [ss |-> b.ss,
       rng |-> random_seed(b.rng, b.ss.solo_work_id, b.ss.shuffle_seed)]

\* The rest of the script: pick_versions and random.shuffle draw from the
\* generator as it stands, then the length check and the player.
solo_bottom(ss, w, r, ev) ==
  LET current_work_ == find_work(ss.solo_work_id)
      picked == pick_versions(current_work_.videos, w.versions_count, Stream(r, MaxDraws))
      r2 == Advance(r, DrawsOfPick(current_work_.videos, w.versions_count))
      versions_ == shuffle(picked, Stream(r2, MaxDraws))
      r3 == Advance(r2, DrawsOfShuffle(picked))
  IN  IF Len(versions_) < MIN_VERSIONS_REQUIRED
      THEN [ss |-> ss, rng |-> r3, shown |-> <<>>, rerun |-> FALSE]
      ELSE [ss |-> solo_player(ss, current_work_.id, versions_, ev),
            rng |-> r3, shown |-> versions_,
            rerun |-> ev.kind = "listen" /\ ev.vid \in Range(versions_)]

\* The search box and the selectbox keep their value only while they are drawn:
\* the box in Search mode, the selectbox while its option list stays the same.
kept_widgets(old, new) ==
  LET q_ == IF new.solo_mode = "Search" /\ old.solo_mode = "Search" THEN new.q ELSE <<>>
      same == /\ old.solo_mode = "Search"
              /\ new.solo_mode = "Search"
              /\ matches_for(q_) /= <<>>
              /\ matches_for(q_) = matches_for(old.q)
  IN  [new EXCEPT !.q = q_, !.sel = IF same THEN new.sel ELSE 1]

\* the two scripts differ in the Listen handler only
BuildsApart(ev) == IF ev.kind = "listen" THEN SoloBuilds ELSE {"app_old"}

\* The browser sends the widget values w and the event ev; the script runs
\* as far as the seeding call.
SoloStep(w, ev) ==
  /\ scope = "solo"
  /\ solo_pc = "idle"
  /\ session_state.shuffle_seed + 2 <= MaxSeed
  /\ \E w1 \in {kept_widgets(widgets, w)} :
       \E out \in {solo_top(session_state, w1, rng, ev)} :
         /\ session_state' = out.ss
         /\ widgets' = w1
         /\ rng' = out.rng
  /\ event' = ev
  /\ solo_pc' = "seeded"
  /\ UNCHANGED <<pk_pc, pk_videos, pk_count, pk_out, scope, partyVars, shown,
                 foreign_draws>>

\* The script goes on from the seeding call to its end; a Listen handler
\* that ends in st.rerun() asks for another run.
SoloDisplay ==
  /\ scope = "solo"
  /\ solo_pc = "seeded"
  /\ \E out \in {solo_bottom(session_state, widgets, rng, event)} :
       /\ session_state' = out.ss
       /\ rng' = out.rng
       /\ shown' = out.shown
       /\ \E build \in BuildsApart(event) :
            solo_pc' = IF build = "app_old" /\ out.rerun THEN "rerun" ELSE "idle"
  /\ event' = NoEvent
  /\ UNCHANGED <<pk_pc, pk_videos, pk_count, pk_out, scope, partyVars, widgets,
                 foreign_draws>>

\* st.rerun(): the script starts over with the same widget values
SoloRerun ==
  /\ scope = "solo"
  /\ solo_pc = "rerun"
  /\ \E out \in {solo_top(session_state, widgets, rng, NoEvent)} :
       /\ session_state' = out.ss
       /\ rng' = out.rng
  /\ solo_pc' = "seeded"
  /\ UNCHANGED <<pk_pc, pk_videos, pk_count, pk_out, scope, partyVars,
                 widgets, shown, event, foreign_draws>>

HasRun == session_state.solo_work_id /= None

\* page load, or a rerun no handler of this section reacts to (an expander,
\* a questionnaire box, the save button)
SoloRender ==
  /\ scope = "solo"
  /\ SoloStep(widgets, NoEvent)

SoloSetMode(m) ==
  /\ HasRun
  /\ m /= widgets.solo_mode
  /\ SoloStep([widgets EXCEPT !.solo_mode = m], NoEvent)

SoloSetCount(c) ==
  /\ HasRun
  /\ c /= widgets.versions_count
  /\ SoloStep([widgets EXCEPT !.versions_count = c], NoEvent)

SoloSetQuery(q) ==
  /\ HasRun
  /\ widgets.solo_mode = "Search"
  /\ q /= widgets.q
  /\ SoloStep([widgets EXCEPT !.q = q], NoEvent)

SoloSelect(i) ==
  /\ HasRun
  /\ widgets.solo_mode = "Search"
  /\ i \in 1..Len(matches_for(widgets.q))
  /\ i /= widgets.sel
  /\ SoloStep([widgets EXCEPT !.sel = i], NoEvent)

SoloNewRandom ==
  /\ HasRun
  /\ widgets.solo_mode = "Random aria"
  /\ SoloStep(widgets, [kind |-> "new_random", vid |-> ""])

SoloReshuffle ==
  /\ HasRun
  /\ widgets.solo_mode = "Random aria"
  /\ SoloStep(widgets, [kind |-> "reshuffle", vid |-> ""])

SoloStopAll ==
  /\ HasRun
  /\ shown /= <<>>
  /\ SoloStep(widgets, [kind |-> "stop_all", vid |-> ""])

SoloListen(vid) ==
  /\ vid \in Range(shown)
  /\ SoloStep(widgets, [kind |-> "listen", vid |-> vid])

SoloStop(vid) ==
  /\ vid \in Range(shown)
  /\ SoloStep(widgets, [kind |-> "stop", vid |-> vid])

\* Another session of the same process draws from the shared generator
\* (random.choice in its party screens).
ForeignDraw ==
  /\ scope = "solo"
  /\ foreign_draws < MaxForeignDraws
  /\ foreign_draws' = foreign_draws + 1
  /\ rng' = Lcg(rng)
  /\ UNCHANGED <<pk_pc, pk_videos, pk_count, pk_out, scope, partyVars,
                 session_state, widgets, shown, solo_pc, event>>

AllVideoIds == UNION {Range(Works[i].videos) : i \in 1..Len(Works)}

InitSolo ==
  /\ scope = "solo"
  /\ PickIdle
  /\ PartyIdle
  /\ SoloIdle
  /\ rng \in 0..(RngMod - 1)

NextSolo ==
  \/ SoloRender
  \/ SoloDisplay
  \/ SoloRerun
  \/ \E m \in SoloModes : SoloSetMode(m)
  \/ \E c \in SoloCounts : SoloSetCount(c)
  \/ \E q \in Queries : SoloSetQuery(q)
  \/ \E i \in 1..Len(Works) : SoloSelect(i)
  \/ SoloNewRandom
  \/ SoloReshuffle
  \/ SoloStopAll
  \/ \E vid \in AllVideoIds : SoloListen(vid)
  \/ \E vid \in AllVideoIds : SoloStop(vid)
  \/ ForeignDraw

SpecSolo == InitSolo /\ [][NextSolo]_vars


(***************************************************************************)
(* Party mode and solo mode side by side                                   *)
(***************************************************************************)
InitAll == Init \/ InitSolo

NextAll == Next \/ NextSolo

SpecAll == InitAll /\ [][NextAll]_vars

(***************************************************************************)
(* Claims about solo mode and about eligibility                            *)
(***************************************************************************)
\* the list a render displays when nothing but its own seeding call has
\* touched the generator
SeededSelection(work_id, n, count) ==
  LET videos == find_work(work_id).videos
      r == random_seed(0, work_id, n)
      picked == pick_versions(videos, count, Stream(r, MaxDraws))
  IN  shuffle(picked, Stream(Advance(r, DrawsOfPick(videos, count)), MaxDraws))

\* C8: two solo renders with the same work_id, the same shuffle_seed and the
\* same requested count display the same ordered take list: every finished
\* render displays the one list that belongs to its (work_id, shuffle_seed,
\* count).
C8_SameKeySameList ==
  (scope = "solo" /\ solo_pc = "idle" /\ shown /= <<>>)
    => shown = SeededSelection(session_state.solo_work_id,
                               session_state.shuffle_seed,
                               widgets.versions_count)

\* C9: shuffle_seed advances only when the user reshuffles or the active work
\* changes (a new random aria, another mode, query, selection or work); a run
\* of the script for any other reason (listen, stop, an expander, save) leaves
\* it as it was, in the Random and in the Search sub-mode.
C9_SeedAdvancesOnlyOnReshuffleOrWorkChange ==
  [][(scope = "solo" /\ session_state'.shuffle_seed /= session_state.shuffle_seed)
       => \/ event'.kind \in {"reshuffle", "new_random"}
          \/ session_state'.solo_work_id /= session_state.solo_work_id
          \/ widgets' /= widgets]_vars

\* C10: a work with fewer than 3 non-empty take identifiers is never the
\* work of a stored session (created or changed by change aria) and never
\* the solo active work.
C10_OnlyEligibleWorksSelected ==
  /\ \A s \in SessionIds :
       Exists(s) => Len(EligibleIds(find_work(sessions[s].work_id).videos)) >= 3
  /\ session_state.solo_work_id /= None
       => Len(EligibleIds(find_work(session_state.solo_work_id).videos)) >= 3

\* a session whose work was chosen through the search box, which also
\* matches a work with two takes only
C10_Witness ==
  /\ Exists(1)
  /\ sessions[1].work_id = "w3"
  /\ \E v \in Views : pc[v] = "controls" /\ loc[v].sess.work_id = "w1"


(***************************************************************************)
(* Party mode with the notes: player loop, load_note, upsert_note          *)
(***************************************************************************)
MaxNotes == 2

\* rows session_notes may hold where the owner changes the aria as well
MaxFrameNotes == 1

\* What a user leaves in the questionnaire: the impression radio and the
\* free note (the other groups behave like the radio).  Each user types
\* their own words.
Payloads(u) ==
  IF u = "u1"
  THEN {[impression |-> "Loved it", comment |-> "p"],
        [impression |-> "Neutral", comment |-> "q"]}
  ELSE {[impression |-> "Loved it", comment |-> "r"],
        [impression |-> "Neutral", comment |-> "s"]}

NoteRow(sid, u, w, t, payload) ==
  [session_id |-> sid, user_id |-> u, work_id |-> w, video_id |-> t,
   payload |-> payload]

\* .eq("session_id", ..).eq("user_id", ..).eq("work_id", ..).eq("video_id", ..)
NoteRowsOf(rows, sid, u, w, t) ==
  {r \in rows : /\ r.session_id = sid
                /\ r.user_id = u
                /\ r.work_id = w
                /\ r.video_id = t}

\* A plain insert in place of the upsert (mutant of upsert_note).
upsert_note_insert(rows, sid, u, w, t, payload) ==
  rows \cup {NoteRow(sid, u, w, t, payload)}

\* upsert(..., on_conflict="session_id,user_id,work_id,video_id")
upsert_note(rows, sid, u, w, t, payload) ==
  (rows \ NoteRowsOf(rows, sid, u, w, t)) \cup {NoteRow(sid, u, w, t, payload)}

\* The select without its user_id filter (mutant of load_note).
load_note_any_user(rows, sid, u, w, t) ==
  LET found == {r \in rows : r.session_id = sid /\ r.work_id = w /\ r.video_id = t}
  IN  IF found = {} THEN {NoNote} ELSE {r.payload : r \in found}

\* load_note: res.data[0]["payload"] of the matching rows, None without one
load_note(rows, sid, u, w, t) ==
  LET found == NoteRowsOf(rows, sid, u, w, t)
  IN  IF found = {} THEN {NoNote} ELSE {r.payload : r \in found}

\* the take the player loop stands at
take_at(v) == versions(v)[loc[v].idx]


\* The player is rendered whatever the lookup of the work returned (mutant
\* of RenderTakes).
RenderTakes_Unchecked(v) ==
  /\ scope \in NoteScopes
  /\ pc[v] = "controls"
  /\ pc' = [pc EXCEPT ![v] = "player"]
  /\ UNCHANGED <<pickVars, soloVars, play, storeVars, auth, wants_party_mode, session_param,
                 active_session_id, loc>>

\* The run goes on from the owner controls to the player.
RenderTakes(v) ==
  /\ scope \in NoteScopes
  /\ ReachesControls(v)
  /\ pc' = [pc EXCEPT ![v] = "player"]
  /\ UNCHANGED <<pickVars, soloVars, play, storeVars, auth, wants_party_mode, session_param,
                 active_session_id, loc>>

\* The player loop reaches its next take and loads the user's note for it.
LoadNote(v) ==
  /\ scope \in NoteScopes
  /\ pc[v] = "player"
  /\ loc[v].idx < Len(versions(v))
  /\ \E saved \in load_note(notes, loc[v].sid, auth[v], current_work(v).id,
                           versions(v)[loc[v].idx + 1]) :
       loc' = [loc EXCEPT ![v].idx = @ + 1, ![v].saved = saved]
  /\ UNCHANGED <<pickVars, soloVars, play, storeVars, auth, wants_party_mode, session_param,
                 active_session_id, pc>>

\* "Save notes" of the take the loop stands at: the one click this run handles
SaveNote(v, payload) ==
  /\ scope \in NoteScopes
  /\ pc[v] = "player"
  /\ loc[v].idx >= 1
  /\ loc[v].sent = NoNote
  /\ payload \in Payloads(auth[v])
  /\ notes' = upsert_note(notes, loc[v].sid, auth[v], current_work(v).id, take_at(v),
                          payload)
  /\ Cardinality(notes') <= MaxNotes
  /\ scope = "frame" => Cardinality(notes') <= MaxFrameNotes
  /\ loc' = [loc EXCEPT ![v].sent = payload]
  /\ UNCHANGED <<pickVars, soloVars, play, sessions, members, auth, wants_party_mode,
                 session_param, active_session_id, pc>>

\* The loop is through: the run ends.
EndRender(v) ==
  /\ scope \in NoteScopes
  /\ pc[v] = "player"
  /\ loc[v].idx = Len(versions(v))
  /\ pc' = [pc EXCEPT ![v] = "idle"]
  /\ loc' = [loc EXCEPT ![v] = NoLoc]
  /\ UNCHANGED <<pickVars, soloVars, play, storeVars, auth, wants_party_mode, session_param,
                 active_session_id>>

\* The next user event on a view whose run ended on a failure starts a new
\* run.
Rerun(v) ==
  /\ scope \in {"faulty", "notes", "forged", "frame"}
  /\ pc[v] \in {"error", "crashed"}
  /\ pc' = [pc EXCEPT ![v] = "idle"]
  /\ UNCHANGED <<pickVars, soloVars, play, storeVars, auth, wants_party_mode, session_param,
                 active_session_id, loc>>

\* The builds of the player and notepad: app.py, app_old.py, ui/
NoteBuilds == {"app", "app_old", "ui"}

\* load_note raises in the player loop: no build has a try around the call,
\* the exception leaves the script ("crashed").
LoadNoteFail(v) ==
  /\ scope = "notes"
  /\ pc[v] = "player"
  /\ loc[v].idx < Len(versions(v))
  /\ pc' = [pc EXCEPT ![v] = "crashed"]
  /\ loc' = [loc EXCEPT ![v] = NoLoc]
  /\ UNCHANGED <<pickVars, soloVars, play, storeVars, auth, wants_party_mode, session_param,
                 active_session_id>>

\* upsert_note raises under "Save notes": app.py reports it from its except
\* branch and the run goes on; app_old.py and ui/questionnaire.py call it
\* outside any try.
SaveNoteFail(v) ==
  /\ scope = "notes"
  /\ pc[v] = "player"
  /\ loc[v].idx >= 1
  /\ loc[v].sent = NoNote
  /\ \E build \in NoteBuilds :
       pc' = [pc EXCEPT ![v] = IF build = "app" THEN "error" ELSE "crashed"]
  /\ loc' = [loc EXCEPT ![v] = NoLoc]
  /\ UNCHANGED <<pickVars, soloVars, play, storeVars, auth, wants_party_mode, session_param,
                 active_session_id>>

\* The loaded session's work is not in the catalog, or its takes are too
\* few: st.error and st.stop before the controls, the player and the notepad.
StopRender(v) ==
  /\ scope \in NoteScopes
  /\ pc[v] = "controls"
  /\ ~ReachesControls(v)
  /\ pc' = [pc EXCEPT ![v] = "error"]
  /\ loc' = [loc EXCEPT ![v] = NoLoc]
  /\ UNCHANGED <<pickVars, soloVars, play, storeVars, auth, wants_party_mode, session_param,
                 active_session_id>>

AllPayloads == UNION {Payloads(u) : u \in Users}

\* a stored selection whose work the local catalog does not hold (the
\* catalog file changed after the session was created)
StaleSelections == {<<"w0", <<"a", "b", "c">>>>}

\* the views that are open: the creator's tab with a second tab of the same
\* person, or with the tab of another person
ViewPairs == {{"v1", "v2"}, {"v1", "v3"}}

\* A session that "u1" created and whose link the open views hold, the
\* creator logged in, the other open view logged in or still at the login
\* block of the invite; no note saved yet.
InitNotes ==
  /\ scope = "notes"
  /\ PickIdle
  /\ SoloIdle
  /\ rng = 0
  /\ \E sel \in SelectionChoices \cup StaleSelections :
       sessions = [s \in SessionIds |->
                     IF s = 1 THEN [title |-> DefaultTitle, work_id |-> sel[1],
                                    video_ids |-> sel[2], owner_id |-> "u1"]
                     ELSE NoRow]
  /\ members = [r \in MemberRows |-> IF r = <<1, "u1", "owner">> THEN 1 ELSE 0]
  /\ \E open \in ViewPairs, guest_logged_in \in BOOLEAN :
       /\ auth = [v \in Views |->
                   IF v = "v1" \/ (v \in open /\ guest_logged_in) THEN UserOf(v)
                   ELSE None]
       /\ session_param = [v \in Views |-> IF v \in open THEN 1 ELSE NoSession]
  /\ wants_party_mode = [v \in Views |-> FALSE]
  /\ active_session_id = [v \in Views |-> IF v = "v1" THEN 1 ELSE NoSession]
  /\ pc = [v \in Views |-> "idle"]
  /\ loc = [v \in Views |-> NoLoc]
  /\ notes = {}
  /\ play = [v \in Views |-> NoPlay]

NextNotes ==
  \/ \E v \in Views : Login(v)
  \/ \E v \in Views : JoinSelect(v)
  \/ \E v \in Views : EnsureInsert(v)
  \/ \E v \in Views : GetRole(v)
  \/ \E v \in Views : LoadSession(v)
  \/ \E v \in Views : RenderTakes(v)
  \/ \E v \in Views : LoadNote(v)
  \/ \E v \in Views, payload \in AllPayloads : SaveNote(v, payload)
  \/ \E v \in Views : EndRender(v)
  \/ \E v \in Views : LoadNoteFail(v)
  \/ \E v \in Views : SaveNoteFail(v)
  \/ \E v \in Views : StopRender(v)
  \/ \E v \in Views : Reshuffle(v)
  \/ \E v \in Views : Rerun(v)

SpecNotes == InitNotes /\ [][NextNotes]_vars


\* the step of view v is a save of a note
Saves(v) == pc[v] = "player" /\ loc[v].sent = NoNote /\ loc'[v].sent # NoNote

\* the rows of the table outside one key
OtherNoteRows(rows, sid, u, w, t) == rows \ NoteRowsOf(rows, sid, u, w, t)

\* C11: saving a note for (session, user, work, take) leaves exactly one row
\* under that key, the next load of the key returns exactly the payload just
\* sent, whatever was stored there before, and the rows of every other key
\* are as they were.
C11_UpsertRoundTrip ==
  [][\A v \in Views :
       Saves(v) =>
         LET sid == loc[v].sid
             w == current_work(v).id
             t == take_at(v)
         IN /\ Cardinality(NoteRowsOf(notes', sid, auth[v], w, t)) = 1
            /\ load_note(notes', sid, auth[v], w, t) = {loc'[v].sent}
            /\ OtherNoteRows(notes', sid, auth[v], w, t)
                 = OtherNoteRows(notes, sid, auth[v], w, t)]_vars

\* a view loaded P for a take, sent another payload for it, and the table
\* returns the second one
C11_Witness ==
  \E v \in Views :
    /\ pc[v] = "player"
    /\ loc[v].saved \in Payloads(auth[v])
    /\ loc[v].sent \in Payloads(auth[v])
    /\ loc[v].saved # loc[v].sent
    /\ load_note(notes, loc[v].sid, auth[v], current_work(v).id, take_at(v))
         = {loc[v].sent}


\* the rows of one user
NotesOfUser(rows, u) == {r \in rows : r.user_id = u}

\* C12: notes are private to their user.  Every row carries a payload its own
\* user built, every note a view has loaded is a payload of the view's user
\* (or no note), and what a load returns for the view's user is what it
\* would return with every other user's rows removed from the table.
C12_NotesPrivatePerUser ==
  /\ \A r \in notes : r.payload \in Payloads(r.user_id)
  /\ \A v \in Views :
       pc[v] = "player" =>
         /\ loc[v].saved \in Payloads(auth[v]) \cup {NoNote}
         /\ loc[v].idx >= 1 =>
              load_note(notes, loc[v].sid, auth[v], current_work(v).id, take_at(v))
                = load_note(NotesOfUser(notes, auth[v]), loc[v].sid, auth[v],
                            current_work(v).id, take_at(v))

\* a view has loaded its user's own note for a take on which another user
\* has a note too
C12_Witness ==
  \E v \in Views :
    /\ pc[v] = "player"
    /\ loc[v].idx >= 1
    /\ loc[v].saved \in Payloads(auth[v])
    /\ \E r \in notes :
         /\ r.user_id # auth[v]
         /\ r.session_id = loc[v].sid
         /\ r.work_id = current_work(v).id
         /\ r.video_id = take_at(v)


\* C13: a logged-in user's visit of a shared link leaves the user with a
\* membership row for the session: the select of ensure_member decides by
\* the rows of the pair, writing nothing; the insert adds one "member" row
\* for the pair and touches nothing else; get_member_role then returns the
\* one role the pair's rows carry ("owner" for the creator, whose row is
\* left as it was) and writes nothing.  A pair without a row reads None.
C13_VisitLeavesMembership ==
  [][/\ \A s \in SessionIds, u \in Users :
          (None \in get_member_role(s, u)) <=> (RowCount(s, u) = 0)
     /\ \A v \in Views :
          LET sid == loc'[v].sid
              u == auth[v]
          IN /\ (pc[v] \in {"idle", "rerun"} /\ pc'[v] \in {"ensure_insert", "get_role"}) =>
                  /\ members' = members
                  /\ (pc'[v] = "get_role") <=> (RowCount(sid, u) >= 1)
             /\ (pc[v] = "ensure_insert" /\ pc'[v] = "get_role") =>
                  /\ members'[<<sid, u, "member">>] = members[<<sid, u, "member">>] + 1
                  /\ \A r \in MemberRows \ {<<sid, u, "member">>} :
                       members'[r] = members[r]
             /\ (pc[v] = "get_role" /\ pc'[v] = "load") =>
                  /\ members' = members
                  /\ RowCount(sid, u) >= 1
                  /\ get_member_role(sid, u) = {loc'[v].role}
                  /\ loc'[v].role = "owner" <=> members[<<sid, u, "owner">>] >= 1]_vars

\* a visitor came out as member of a session whose creator came out as owner
C13_Witness ==
  \E v, w \in Views :
    /\ pc[v] = "controls" /\ loc[v].role = "member"
    /\ pc[w] = "controls" /\ loc[w].role = "owner"
    /\ loc[v].sid = loc[w].sid
    /\ members[<<loc[v].sid, auth[v], "member">>] >= 1
    /\ members[<<loc[v].sid, auth[v], "owner">>] = 0


\* C14: in every build, a view that reaches the session controls is offered
\* "change aria" and "reshuffle" exactly when its membership role is "owner"
\* or the session's owner_id is its user.
C14_ControlsIffOwnerRowOrOwnerId ==
  \A v \in Views :
    ReachesControls(v) =>
      \A build \in Builds :
        is_owner(build, v) <=> (loc[v].role = "owner" \/ loc[v].sess.owner_id = auth[v])


\* C15: the owner mutations change nothing but their own fields.  A step
\* that changes the row of an existing session keeps its title and owner_id
\* and leaves the membership rows and the notes alone; a reshuffle keeps the
\* work_id as well; a step that changes the work_id writes the new work and
\* takes taken from that work together.
C15_OwnerMutationFrame ==
  [][\A s \in SessionIds :
       (Exists(s) /\ sessions'[s] # sessions[s]) =>
         /\ sessions'[s].title = sessions[s].title
         /\ sessions'[s].owner_id = sessions[s].owner_id
         /\ members' = members
         /\ notes' = notes
         /\ \A t \in SessionIds \ {s} : sessions'[t] = sessions[t]
         /\ (\E v \in Views : Reshuffle(v)) => sessions'[s].work_id = sessions[s].work_id
         /\ sessions'[s].work_id # sessions[s].work_id =>
              <<sessions'[s].work_id, sessions'[s].video_ids>> \in SelectionChoices]_vars

\* a session after a change of aria and a reshuffle issued from a view
\* that still showed the earlier aria: both mutations have acted and the
\* title and owner_id are the ones of the creation
C15_Witness ==
  \E s \in SessionIds :
    /\ Exists(s)
    /\ <<sessions[s].work_id, sessions[s].video_ids>> \notin SelectionChoices
    /\ sessions[s].title = DefaultTitle
    /\ sessions[s].owner_id \in Users
    /\ members[<<s, sessions[s].owner_id, "owner">>] = 1


(***************************************************************************)
(* Store requests that fail: execute() raises                              *)
(***************************************************************************)

\* The except branch of a call site: st.error, the run is over ("error").
Caught(v) ==
  /\ pc' = [pc EXCEPT ![v] = "error"]
  /\ loc' = [loc EXCEPT ![v] = NoLoc]

\* The game_sessions insert of create_party_session raises.
CreateSessionFail(v) ==
  /\ scope = "faulty"
  /\ pc[v] = "idle"
  /\ is_logged_in(v)
  /\ party_mode(v)
  /\ party_session_id(v) = NoSession
  /\ Caught(v)
  /\ UNCHANGED <<pickVars, soloVars, play, storeVars, auth, wants_party_mode, session_param,
                 active_session_id>>

\* The session_members insert of create_party_session raises: the function
\* is left by the exception, the caller reports it and adopts no session.
CreateOwnerFail(v) ==
  /\ scope = "faulty"
  /\ pc[v] = "create_owner"
  /\ Caught(v)
  /\ UNCHANGED <<pickVars, soloVars, play, storeVars, auth, wants_party_mode, session_param,
                 active_session_id>>

\* ensure_member, get_member_role or load_party_session raises in the try
\* of the join: st.error and st.stop.
JoinFail(v) ==
  /\ scope \in {"faulty", "forged"}
  /\ \/ pc[v] \in {"ensure_insert", "get_role", "load"}
     \/ pc[v] \in {"idle", "rerun"} /\ is_logged_in(v) /\ party_session_id(v) /= NoSession
  /\ Caught(v)
  /\ UNCHANGED <<pickVars, soloVars, play, storeVars, auth, wants_party_mode, session_param,
                 active_session_id>>

\* update_party_session_work or update_party_session_takes raises in the
\* try of its button.
UpdateFail(v) ==
  /\ scope = "faulty"
  /\ ReachesControls(v)
  /\ \E build \in Builds : is_owner(build, v)
  /\ Caught(v)
  /\ UNCHANGED <<pickVars, soloVars, play, storeVars, auth, wants_party_mode, session_param,
                 active_session_id>>

InitFail == scope = "faulty" /\ PickIdle /\ PartyIdle /\ SoloIdle /\ rng = 0

NextFail ==
  \/ Next
  \/ \E v \in Views : CreateSessionFail(v)
  \/ \E v \in Views : CreateOwnerFail(v)
  \/ \E v \in Views : JoinFail(v)
  \/ \E v \in Views : UpdateFail(v)
  \/ \E v \in Views : Rerun(v)

SpecFail == InitFail /\ [][NextFail]_vars

\* C16: a creation that fails at either step leaves the store as it was
\* before the creation began: after a failed session insert nothing is
\* written, and after a failed owner insert the session row is gone.
C16_CreateAllOrNothing ==
  [][\A v \in Views :
       /\ (pc[v] = "idle" /\ pc'[v] = "error") => storeVars' = storeVars
       /\ (pc[v] = "create_owner" /\ pc'[v] = "error") =>
            /\ sessions'[loc[v].sid] = NoRow
            /\ members' = members]_vars


\* C17: no failure of a store request leaves the script as an uncaught
\* exception: no run ends "crashed".
C17_NoUncaughtStoreFailure == \A v \in Views : pc[v] # "crashed"

\* C18: a run whose loaded session names a work the catalog does not hold
\* ends at the stop with its error and writes nothing; no run shows takes
\* of an unknown work; after the stop the view does nothing but start a new
\* run on the next user event.
C18_UnknownWorkStopsRender ==
  [][\A v \in Views :
       /\ (pc[v] = "controls" /\ current_work(v).id = None /\ pc'[v] # pc[v]) =>
            /\ pc'[v] = "error"
            /\ storeVars' = storeVars
       /\ pc[v] = "player" => current_work(v).id # None
       /\ (pc[v] = "error" /\ pc'[v] # pc[v]) =>
            /\ pc'[v] = "idle"
            /\ storeVars' = storeVars]_vars

\* a view stopped on a session whose work is not in the catalog
C18_Witness ==
  \E v \in Views :
    /\ pc[v] = "error"
    /\ session_param[v] # NoSession
    /\ Exists(session_param[v])
    /\ find_work(sessions[session_param[v]].work_id) = NoWork


\* the run of v is the rerun that follows its own successful creation and
\* has loaded the session
CreatorsNextRender(v) == pc[v] = "controls" /\ loc[v].created # NoRow

\* what C19 asks of that render, the offer of the controls left aside
ActiveAsOwner(v) ==
  /\ loc[v].role = "owner"
  /\ active_session_id[v] = loc[v].sid
  /\ session_param[v] = loc[v].sid
  /\ loc[v].sess.work_id = loc[v].created.work_id
  /\ loc[v].sess.video_ids = loc[v].created.video_ids
  /\ ReachesControls(v)

\* C19: the creator's next render after a successful creation is Active on
\* the new session with role owner, active_session_id and the query
\* parameter are the new id, the loaded work and takes are the ones just
\* selected, and the owner controls are offered, in every build.
C19_CreatorNextRenderIsOwner ==
  \A v \in Views :
    CreatorsNextRender(v) =>
      /\ ActiveAsOwner(v)
      /\ \A build \in Builds : is_owner(build, v)


(***************************************************************************)
(* The party script with its failures and with the notes                   *)
(***************************************************************************)
InitStore == InitFail \/ InitNotes

NextStore ==
  \/ scope = "faulty" /\ NextFail
  \/ scope = "notes" /\ NextNotes

SpecStore == InitStore /\ [][NextStore]_vars

\* the step belongs to a script run of view v past the login gates
RunStep(v) == pc'[v] # pc[v] \/ loc'[v] # loc[v]

\* C20: every step of a party script run, and so every store request, is
\* taken with a login present, through the client that carries the token of
\* that login, acting as that login's user: the membership rows and notes
\* it writes carry that user's id and the session it creates no other
\* owner_id.  No run step is taken with the anonymous client.
C20_StoreRequestsCarryLogin ==
  [][\A v \in Views :
       RunStep(v) =>
         /\ auth[v] \in Users
         /\ get_authed_client(v) # Anon
         /\ get_authed_client(v) = TokenOf(get_user_id(v))
         /\ \A r \in MemberRows : members'[r] # members[r] => r[2] = get_user_id(v)
         /\ \A r \in notes' \ notes : r.user_id = get_user_id(v)
         /\ \A s \in SessionIds :
              (~Exists(s) /\ sessions'[s] # NoRow) =>
                sessions'[s].owner_id \in {get_user_id(v), None}]_vars

\* a logged-in guest of the session has joined and saved a note under its
\* own user id
C20_Witness ==
  \E v \in Views :
    /\ scope = "notes"
    /\ v # "v1"
    /\ pc[v] = "player"
    /\ loc[v].sent # NoNote
    /\ get_authed_client(v) = TokenOf(auth[v])
    /\ RowCount(loc[v].sid, auth[v]) >= 1
    /\ \E r \in notes : r.user_id = auth[v] /\ r.payload = loc[v].sent

(***************************************************************************)
(* Party mode: the player                                                  *)
(***************************************************************************)
\* takes a view may have listened to, over all views and works
MaxPlayed == 1

RECURSIVE SumOver(_, _)
SumOver(f, S) ==
  IF S = {} THEN 0
  ELSE LET x == CHOOSE y \in S : TRUE IN f[x] + SumOver(f, S \ {x})

PlayedCount ==
  SumOver([v \in Views |->
             SumOver([w \in WorkIds |-> Cardinality(play[v].played_by_work[w])],
                     WorkIds)],
          Views)

\* what a visitor does in one render of the player
PlayEvents ==
  {[kind |-> "stop_all", vid |-> None]}
    \cup {[kind |-> k, vid |-> x] :
            k \in {"listen", "stop"},
            x \in UNION {Range(Works[i].videos) : i \in 1..Len(Works)}}

\* One render of the player in party mode in which the visitor presses a
\* button: "Stop playback", or the Listen or Stop button of a displayed take.
\* Every one of them ends the run or reruns, and the next run loads anew.
PlayRender(v, ev) ==
  /\ scope = "play"
  /\ ReachesControls(v)
  /\ ev.kind /= "stop_all" => ev.vid \in Range(versions(v))
  /\ ev.kind = "listen" /\ ev.vid \notin play[v].played_by_work[current_work(v).id]
       => PlayedCount < MaxPlayed
  /\ play' = [play EXCEPT ![v] = solo_player(play[v], current_work(v).id, versions(v), ev)]
  /\ pc' = [pc EXCEPT ![v] = "idle"]
  /\ loc' = [loc EXCEPT ![v] = NoLoc]
  /\ UNCHANGED <<pickVars, soloVars, notes, sessions, members, auth, wants_party_mode,
                 session_param, active_session_id>>

\* A session that "u1" created; the creator's tab and the tab of an invited
\* person hold its link and are logged in; nothing played yet.
InitPlay ==
  /\ scope = "play"
  /\ PickIdle
  /\ SoloIdle
  /\ rng = 0
  /\ \E sel \in SelectionChoices :
       sessions = [s \in SessionIds |->
                     IF s = 1 THEN [title |-> DefaultTitle, work_id |-> sel[1],
                                    video_ids |-> sel[2], owner_id |-> "u1"]
                     ELSE NoRow]
  /\ members = [r \in MemberRows |-> IF r = <<1, "u1", "owner">> THEN 1 ELSE 0]
  /\ auth = [v \in Views |-> IF v \in {"v1", "v3"} THEN UserOf(v) ELSE None]
  /\ session_param = [v \in Views |-> IF v \in {"v1", "v3"} THEN 1 ELSE NoSession]
  /\ wants_party_mode = [v \in Views |-> FALSE]
  /\ active_session_id = [v \in Views |-> IF v = "v1" THEN 1 ELSE NoSession]
  /\ pc = [v \in Views |-> "idle"]
  /\ loc = [v \in Views |-> NoLoc]
  /\ notes = {}
  /\ play = [v \in Views |-> NoPlay]

NextPlay ==
  \/ \E v \in Views : JoinSelect(v)
  \/ \E v \in Views : EnsureInsert(v)
  \/ \E v \in Views : GetRole(v)
  \/ \E v \in Views : LoadSession(v)
  \/ \E v \in Views : ViewSession(v)
  \/ \E v \in Views : ChangeAria(v)
  \/ \E v \in Views : Reshuffle(v)
  \/ \E v \in Views : \E ev \in PlayEvents : PlayRender(v, ev)

SpecPlay == InitPlay /\ [][NextPlay]_vars

(***************************************************************************)
(* Claims about playback state                                             *)
(***************************************************************************)
\* the work a party view displays changes with this step of its owner
ChangesWork(v) ==
  /\ ChangeAria(v)
  /\ sessions'[loc[v].sid].work_id /= loc[v].sess.work_id

\* solo: the step makes another work the active one
SoloChangesWork == session_state'.solo_work_id /= session_state.solo_work_id

\* C21: whenever the active work changes (solo new random aria, solo search
\* selection, party change aria), the played set of the work that becomes
\* active is empty.
C21_PlayedSetEmptyWhenWorkChanges ==
  [][/\ SoloChangesWork =>
          session_state'.played_by_work[session_state'.solo_work_id] = {}
     /\ \A v \in Views :
          ChangesWork(v) =>
            play'[v].played_by_work[sessions'[loc[v].sid].work_id] = {}]_vars

\* the solo half of C21 alone
C21_SoloHalf ==
  [][SoloChangesWork =>
       session_state'.played_by_work[session_state'.solo_work_id] = {}]_vars

\* the step is a run of view v that had reached the controls and writes the
\* session table (a successful change aria or reshuffle)
OwnerWrites(v) ==
  /\ pc[v] = "controls"
  /\ pc'[v] /= pc[v]
  /\ sessions' /= sessions

\* C22: after a successful change aria or reshuffle now_playing is None in
\* the owner's session state, and it stays None until the owner presses
\* Listen on a displayed take.
C22_OwnerMutationClearsPlayback ==
  [][\A v \in Views :
       /\ OwnerWrites(v) => play'[v].now_playing = None
       /\ (play[v].now_playing = None /\ play'[v].now_playing /= None)
            => /\ ReachesControls(v)
               /\ play'[v].now_playing \in Range(versions(v))]_vars

\* the owner listened to a take of a work that the session has since left,
\* and nothing is playing in the owner's view
C22_Witness ==
  \E w \in WorkIds :
    /\ play["v1"].played_by_work[w] /= {}
    /\ sessions[1].work_id /= w
    /\ play["v1"].now_playing = None

(***************************************************************************)
(* Claims about concurrent owner mutations                                 *)
(***************************************************************************)
\* the row view v displays is no longer the stored one: another view has
\* written since v loaded
Stale(v) ==
  /\ ReachesControls(v)
  /\ Exists(loc[v].sid)
  /\ loc[v].sess /= sessions[loc[v].sid]

\* C23: owner mutations are last-write-wins.  Whatever the other views wrote
\* since the writing view loaded, the stored pair after a write is the pair
\* of that write alone: a work with takes picked from it (change aria), or
\* the stored work with the takes that this reshuffle picked.
C23_LastWriteWins ==
  [][\A v \in Views :
       OwnerWrites(v) =>
         LET s == loc[v].sid
         IN  \/ <<sessions'[s].work_id, sessions'[s].video_ids>> \in SelectionChoices
             \/ /\ sessions'[s].work_id = sessions[s].work_id
                /\ sessions'[s].video_ids
                     \in ReshuffleChoices[IndexOfWork(current_work(v).id)]]_vars

\* two views of the owner: one has written while the other, which passes
\* the owner gate, still displays the row from before and can write next
C23_Witness ==
  \E v \in Views :
    /\ Stale(v)
    /\ loc[v].sess.work_id /= sessions[loc[v].sid].work_id
    /\ \E build \in Builds : is_owner(build, v)

(***************************************************************************)
(* Claims about search                                                     *)
(***************************************************************************)
\* empty or only whitespace
Blank(q) == \A i \in 1..Len(q) : IsSpace(q[i])

\* the eligible works whose lowercased title, composer and aliases contain
\* the lowercased, trimmed query
Matching(q) ==
  {Works[i] : i \in {j \in 1..Len(Works) :
      /\ Len(valid_video_ids(Works[j].videos)) >= MIN_VERSIONS_REQUIRED
      /\ contains(lower(join(<<Works[j].title, Works[j].composer>> \o Works[j].aliases)),
                  lower(strip(q)))}}

MatchingIds == [q \in Queries |-> {w.id : w \in Matching(q)}]

\* the result list of every query, against Blank and Matching
ResultsAsSpecified ==
  \A q \in Queries :
    IF Blank(q) THEN search_matches(q) = <<>>
    ELSE /\ Range(search_matches(q)) = Matching(q)
         /\ Len(search_matches(q)) = Cardinality(Matching(q))

\* a solo run in Search mode starts with this step
SearchRun ==
  /\ solo_pc = "idle"
  /\ solo_pc' = "seeded"
  /\ widgets'.solo_mode = "Search"

\* C24: a query that is empty or only whitespace yields no result and selects
\* no work: the chooser of session creation and of change aria gets nothing
\* from it and a solo run leaves the active work as it was.  Any other query
\* yields exactly the matching eligible works, once each, and the solo run
\* makes the selected one of them the active work.
C24_SearchResults ==
  [][/\ ResultsAsSpecified
     /\ SearchRun =>
          IF Blank(widgets'.q)
          THEN session_state.solo_work_id /= None =>
                 session_state'.solo_work_id = session_state.solo_work_id
          ELSE MatchingIds[widgets'.q] /= {} =>
                 session_state'.solo_work_id \in MatchingIds[widgets'.q]]_vars

\* a solo run in Search mode whose query is only whitespace, with the
\* active work of the run before
C24_Witness ==
  /\ solo_pc = "seeded"
  /\ widgets.solo_mode = "Search"
  /\ widgets.q = <<" ">>
  /\ session_state.solo_work_id /= None

\* a solo run in Search mode whose query needs trimming and lowercasing and
\* has made a match the active work
SearchHit ==
  /\ solo_pc = "seeded"
  /\ widgets.solo_mode = "Search"
  /\ widgets.q = <<"M", " ">>
  /\ session_state.solo_work_id \in MatchingIds[widgets.q]

(***************************************************************************)
(* The header of a run: buttons offered and login block shown              *)
(***************************************************************************)
\* the three scripts that draw the header: app.py, app_old.py, ui/header.py
HeaderBuilds == {"app", "app_old", "ui"}

ModeChoiceButtons == {"Solo (no login)", "Play with someone", "Log out"}

\* app.py computes party_mode from the query parameter and wants_party_mode
party_mode_of(build, v) ==
  IF build = "app" THEN is_invite_link(v) \/ wants_party_mode[v] ELSE party_mode(v)

\* The buttons of the header.  app_old.py and ui/header.py draw the three
\* top buttons only "if not is_invite_link" and the escape hatch otherwise;
\* app.py draws the three top buttons in every run.
header_buttons(build, v) ==
  LET top == {"Solo (no login)", "Play with someone"}
               \cup (IF party_mode_of(build, v) /\ is_logged_in(v) THEN {"Log out"} ELSE {})
  IN  IF build = "app" THEN top
      ELSE IF ~is_invite_link(v) THEN top ELSE {"Use solo instead"}

\* The login block the run stops at, None when it goes on:
\* require_login_block(invited=True) for an invite link, require_login_block()
\* otherwise; app.py has the second call only.
login_block(build, v) ==
  IF is_logged_in(v) THEN None
  ELSE IF build = "app"
       THEN IF party_mode_of(build, v) THEN "plain" ELSE None
       ELSE IF is_invite_link(v) THEN "invited"
            ELSE IF party_mode(v) THEN "plain" ELSE None

\* C25: whenever the session query parameter is present the render is the
\* invite landing in party mode for that session: none of the mode-choice
\* buttons is offered, a visitor who is not logged in is stopped at the
\* invited login block with no store request under way, and a logged-in
\* visitor's join is for the session of the parameter.
C25_InviteLanding ==
  \A v \in Views : \A build \in HeaderBuilds :
    is_invite_link(v) =>
      /\ party_mode_of(build, v)
      /\ party_session_id(v) = session_param[v]
      /\ header_buttons(build, v) \cap ModeChoiceButtons = {}
      /\ ~is_logged_in(v) => login_block(build, v) = "invited" /\ pc[v] = "idle"
      /\ pc[v] /= "idle" => loc[v].sid = session_param[v]

\* the same for the two scripts that have the invite landing
C25_InviteLandingOldAndUi ==
  \A v \in Views : \A build \in HeaderBuilds \ {"app"} :
    is_invite_link(v) =>
      /\ party_mode_of(build, v)
      /\ party_session_id(v) = session_param[v]
      /\ header_buttons(build, v) \cap ModeChoiceButtons = {}
      /\ ~is_logged_in(v) => login_block(build, v) = "invited" /\ pc[v] = "idle"
      /\ pc[v] /= "idle" => loc[v].sid = session_param[v]

(***************************************************************************)
(* A link whose session id matches no row of game_sessions                 *)
(***************************************************************************)
\* A page load with ?session=sid for an id that the store does not hold (a
\* mistyped or made-up link).
OpenForged(v, sid) ==
  /\ scope = "forged"
  /\ pc[v] = "idle"
  /\ Fresh(v)
  /\ ~Exists(sid)
  /\ session_param' = [session_param EXCEPT ![v] = sid]
  /\ UNCHANGED <<pickVars, soloVars, play, storeVars, auth, wants_party_mode,
                 active_session_id, pc, loc>>

\* An empty store; no session is ever created.  ensure_member runs before
\* load_party_session, and whether the store takes the insert for an id
\* without a session (EnsureInsert) or refuses it (JoinFail) is the store's
\* choice.
InitForged == scope = "forged" /\ PickIdle /\ PartyIdle /\ SoloIdle /\ rng = 0

NextForged ==
  \/ \E v \in Views, sid \in SessionIds : OpenForged(v, sid)
  \/ \E v \in Views : Login(v)
  \/ \E v \in Views : JoinSelect(v)
  \/ \E v \in Views : EnsureInsert(v)
  \/ \E v \in Views : GetRole(v)
  \/ \E v \in Views : LoadSession(v)
  \/ \E v \in Views : JoinFail(v)
  \/ \E v \in Views : Rerun(v)

SpecForged == InitForged /\ [][NextForged]_vars

\* C26: every membership row refers to an existing session.
C26_MembershipRefersToSession ==
  \A r \in MemberRows : members[r] > 0 => Exists(r[1])

\* C27: in every render that reaches the player, now_playing is None or one
\* of the takes displayed in that render, for a party view (owner or member)
\* and for the solo user.
C27_NowPlayingIsDisplayed ==
  /\ \A v \in Views :
       ReachesControls(v) => play[v].now_playing \in {None} \cup Range(versions(v))
  /\ (solo_pc = "idle" /\ shown /= <<>>) =>
       session_state.now_playing \in {None} \cup Range(shown)

\* the solo half of C27 alone
C27_SoloHalf ==
  (solo_pc = "idle" /\ shown /= <<>>) =>
    session_state.now_playing \in {None} \cup Range(shown)

(***************************************************************************)
(* Claims about the rows of the store taken together                       *)
(***************************************************************************)
\* C28: every note row belongs to a member of an existing session: there is
\* a session row with its session_id and a membership row for its
\* (session_id, user_id).
C28_NoteOfMemberOfSession ==
  \A r \in notes :
    /\ r.session_id \in SessionIds
    /\ Exists(r.session_id)
    /\ RowCount(r.session_id, r.user_id) >= 1

\* the invited user has saved a note in the session they joined
C28_Witness ==
  \E r \in notes :
    /\ r.user_id = "u2"
    /\ members[<<r.session_id, "u2", "member">>] >= 1
    /\ members[<<r.session_id, "u2", "owner">>] = 0

(***************************************************************************)
(* Notes, joins and owner mutations together                               *)
(***************************************************************************)
\* a stored selection of a work that has lost a take in the local catalog
\* since (the catalog file changed after the session was written): the work
\* is still found, the stored takes still pass the length check of the render
ShrunkSelections == {<<"w2", <<"x", "y", "z">>>>}

\* A session that "u1" created, the creator's tab and the tab of an invited
\* person holding its link, the creator logged in, the invited person logged
\* in or not yet; no note saved yet.
InitFrame ==
  /\ scope = "frame"
  /\ PickIdle
  /\ SoloIdle
  /\ rng = 0
  /\ \E sel \in SelectionChoices \cup ShrunkSelections :
       sessions = [s \in SessionIds |->
                     IF s = 1 THEN [title |-> DefaultTitle, work_id |-> sel[1],
                                    video_ids |-> sel[2], owner_id |-> "u1"]
                     ELSE NoRow]
  /\ members = [r \in MemberRows |-> IF r = <<1, "u1", "owner">> THEN 1 ELSE 0]
  /\ \E guest_logged_in \in BOOLEAN :
       auth = [v \in Views |->
                 IF v = "v1" \/ (v = "v3" /\ guest_logged_in) THEN UserOf(v) ELSE None]
  /\ session_param = [v \in Views |-> IF v \in {"v1", "v3"} THEN 1 ELSE NoSession]
  /\ wants_party_mode = [v \in Views |-> FALSE]
  /\ active_session_id = [v \in Views |-> IF v = "v1" THEN 1 ELSE NoSession]
  /\ pc = [v \in Views |-> "idle"]
  /\ loc = [v \in Views |-> NoLoc]
  /\ notes = {}
  /\ play = [v \in Views |-> NoPlay]

NextFrame ==
  \/ \E v \in Views : Login(v)
  \/ \E v \in Views : JoinSelect(v)
  \/ \E v \in Views : EnsureInsert(v)
  \/ \E v \in Views : GetRole(v)
  \/ \E v \in Views : LoadSession(v)
  \/ \E v \in Views : ChangeAria(v)
  \/ \E v \in Views : Reshuffle(v)
  \/ \E v \in Views : RenderTakes(v)
  \/ \E v \in Views : LoadNote(v)
  \/ \E v \in Views, payload \in AllPayloads : SaveNote(v, payload)
  \/ \E v \in Views : EndRender(v)
  \/ \E v \in Views : StopRender(v)
  \/ \E v \in Views : Rerun(v)

SpecFrame == InitFrame /\ [][NextFrame]_vars

\* the step of view v saves a note under the key of row r
SavesKeyOf(v, r) ==
  /\ Saves(v)
  /\ r.session_id = loc[v].sid
  /\ r.user_id = auth[v]
  /\ r.work_id = current_work(v).id
  /\ r.video_id = take_at(v)

\* C29: joins, change aria and reshuffle never modify or delete a note row
\* or a membership row.  A note row leaves or enters the table only in a
\* save by its own user under its own key, so a load returns the saved
\* payload until then; a membership row is never removed, and one is added
\* only by the insert of a join.
C29_JoinsAndMutationsKeepRows ==
  [][/\ \A r \in notes \cup notes' :
          (r \in notes /\ r \in notes') \/ \E v \in Views : SavesKeyOf(v, r)
     /\ \A r \in MemberRows : members'[r] >= members[r]
     /\ members' /= members => \E v \in Views : pc[v] = "ensure_insert" /\ pc'[v] = "get_role"
     /\ \A v \in Views :
          (OwnerWrites(v) \/ (pc[v] \in {"idle", "rerun", "ensure_insert", "get_role", "load"}
                               /\ pc'[v] /= pc[v]))
            => notes' = notes]_vars

\* a note saved for a take of a work that the owner has since changed away
\* from is still in the table, and the session has a member who joined
C29_Witness ==
  \E r \in notes :
    /\ r.work_id /= sessions[r.session_id].work_id
    /\ members[<<r.session_id, "u2", "member">>] >= 1

\* C30: every session row stored holds between 3 and 10 take ids, none of
\* them empty, after creation and after every change aria and reshuffle.
C30_StoredTakesWithinBounds ==
  \A s \in SessionIds :
    Exists(s) =>
      /\ Len(sessions[s].video_ids) >= MIN_VERSIONS_REQUIRED
      /\ Len(sessions[s].video_ids) <= MaxTakesInput
      /\ \A i \in 1..Len(sessions[s].video_ids) : sessions[s].video_ids[i] /= ""

\* the same, for sessions whose work the catalog lists as it did when the
\* session was written
C30_WithTheCatalogOfCreation ==
  \A s \in SessionIds :
    (Exists(s) /\ IsEligible(find_work(sessions[s].work_id))) =>
      /\ Len(sessions[s].video_ids) >= MIN_VERSIONS_REQUIRED
      /\ Len(sessions[s].video_ids) <= MaxTakesInput
      /\ \A i \in 1..Len(sessions[s].video_ids) : sessions[s].video_ids[i] /= ""

====
